---- MODULE Spec2Model ----
(***************************************************************************)
(* A model of git-tracker (src/src/main.rs): the two on-disk stores, the   *)
(* tracker an invocation builds from them, and the three commands (add,    *)
(* list, commit).  Rust Strings that the program takes apart or builds     *)
(* (descriptions, templates, commit messages, file names, branch names,    *)
(* process output) are sequences of one-character strings; Strings that    *)
(* are only compared or printed (type tags, timestamps) are atoms.         *)
(***************************************************************************)
EXTENDS Integers, Sequences, FiniteSets, TLC

\* ------------------------------------------------------------------ bounds

\* The longest change log an add is allowed to produce.
MaxLog == 2

\* The invocations that may exist at once (two, for the unsynchronised runs).
Procs == {1, 2}

\* ------------------------------------------------------------------ strings

NL == "\n"

RECURSIVE Join(_, _)
\* [String]::join(sep)
Join(strs, sep) ==
    IF Len(strs) = 0 THEN <<>>
    ELSE IF Len(strs) = 1 THEN strs[1]
    ELSE strs[1] \o sep \o Join(Tail(strs), sep)

IsPrefix(p, s) == Len(p) <= Len(s) /\ SubSeq(s, 1, Len(p)) = p

RECURSIVE Replace(_, _, _)
\* str::replace(from, to): every non-overlapping match of `from`, found left
\* to right, becomes `to`; the inserted text is not scanned again.
Replace(s, from, to) ==
    IF Len(s) = 0 THEN <<>>
    ELSE IF IsPrefix(from, s)
         THEN to \o Replace(SubSeq(s, Len(from) + 1, Len(s)), from, to)
         ELSE <<Head(s)>> \o Replace(Tail(s), from, to)

IsSpace(c) == c \in {" ", NL, "\t", "\r"}

RECURSIVE TrimStart(_)
TrimStart(s) == IF Len(s) > 0 /\ IsSpace(Head(s)) THEN TrimStart(Tail(s)) ELSE s

RECURSIVE TrimEnd(_)
TrimEnd(s) ==
    IF Len(s) > 0 /\ IsSpace(s[Len(s)]) THEN TrimEnd(SubSeq(s, 1, Len(s) - 1)) ELSE s

\* str::trim()
Trim(s) == TrimEnd(TrimStart(s))

RECURSIVE Lines(_, _)
\* str::lines(): split at each "\n"; a final line needs no terminator and a
\* trailing terminator starts no further line.  `cur` is the line being read.
Lines(s, cur) ==
    IF Len(s) = 0 THEN (IF Len(cur) = 0 THEN <<>> ELSE <<cur>>)
    ELSE IF Head(s) = NL THEN <<cur>> \o Lines(Tail(s), <<>>)
    ELSE Lines(Tail(s), Append(cur, Head(s)))

\* ------------------------------------------------------------------ config

Placeholder == <<"{", "m", "e", "s", "s", "a", "g", "e", "}">>

\* "<prefix>: {message}"
Tpl(prefix) == prefix \o <<":", " ">> \o Placeholder

\* The templates new() seeds a missing config file with.
DefaultTemplates ==
    [t \in {"feature", "fix", "docs", "style", "refactor", "test", "chore"} |->
        CASE t = "feature"  -> Tpl(<<"f", "e", "a", "t">>)
          [] t = "fix"      -> Tpl(<<"f", "i", "x">>)
          [] t = "docs"     -> Tpl(<<"d", "o", "c", "s">>)
          [] t = "style"    -> Tpl(<<"s", "t", "y", "l", "e">>)
          [] t = "refactor" -> Tpl(<<"r", "e", "f", "a", "c", "t", "o", "r">>)
          [] t = "test"     -> Tpl(<<"t", "e", "s", "t">>)
          [] t = "chore"    -> Tpl(<<"c", "h", "o", "r", "e">>)]

\* The Config new() builds when .gt-config.json does not exist.
DefaultConfig ==
    [default_branch   |-> <<"m", "a", "i", "n">>,
     commit_templates |-> DefaultTemplates,
     auto_push        |-> TRUE]

\* Two configs an operator may have written by hand: one whose mapping has no
\* "feature" entry, one that turns auto_push off, has a bare-placeholder
\* "feature" template and uses the placeholder twice in "fix".
ConfigNoFeature ==
    [default_branch   |-> <<"t", "r", "u", "n", "k">>,
     commit_templates |-> [t \in {"fix"} |-> Placeholder],
     auto_push        |-> TRUE]

ConfigNoPush ==
    [default_branch   |-> <<"m", "a", "i", "n">>,
     commit_templates |->
        [t \in {"feature", "fix"} |->
            IF t = "feature" THEN Placeholder
            ELSE Placeholder \o <<"/">> \o Placeholder],
     auto_push        |-> FALSE]

\* The Config struct, as it can be read back from a config file.
Config == {DefaultConfig, ConfigNoFeature, ConfigNoPush}

\* ------------------------------------------------------------------ files

\* A store on disk: absent, unparsable, or holding a JSON body.
NoFile == [state |-> "absent", body |-> <<>>]
Corrupt == [state |-> "corrupt", body |-> <<>>]
JsonFile(body) == [state |-> "json", body |-> body]

\* serde_json::to_string_pretty(&self.changes): one object per Change, in
\* order, under the struct's field names.
ToJson(chs) ==
    [i \in 1..Len(chs) |->
        [timestamp   |-> chs[i].timestamp,
         type_       |-> chs[i].type_,
         description |-> chs[i].description,
         files       |-> chs[i].files]]

\* serde_json::from_str::<Vec<Change>>
FromJson(body) ==
    [i \in 1..Len(body) |->
        [timestamp   |-> body[i].timestamp,
         type_       |-> body[i].type_,
         description |-> body[i].description,
         files       |-> body[i].files]]

\* fs::write: the file is replaced, or the write fails leaving the old file,
\* or it fails after truncating it.
WriteOutcomes == {"ok", "fail", "partial"}

Written(old, body, w) ==
    CASE w = "ok"      -> JsonFile(body)
      [] w = "fail"    -> old
      [] w = "partial" -> Corrupt

\* ------------------------------------------------------------------ inputs

\* Option<String>
None == [some |-> FALSE, val |-> <<>>]
Some(v) == [some |-> TRUE, val |-> v]

\* What the operator may pass to add: (type tag, description).
AddInputs == {<<"feature", <<"X">>>>, <<"fix", <<"Y">>>>, <<"wip", <<>>>>}

\* What the operator may pass to commit --branch.
BranchArgs == {None, Some(<<"r", "e", "l">>)}

\* Local::now().to_rfc3339()
Timestamps == {"2024-01-01T00:00:00+00:00"}

\* Standard output of `git diff --name-only`.
DiffOutputs == {<<>>, <<"a", NL, NL, "b", NL>>}

\* Standard output of `git status --porcelain`.
StatusOutputs == {<<>>, <<" ", "M", " ", "a", NL>>}

\* Standard output of `git branch --show-current` (empty on a detached HEAD).
BranchOutputs == {<<>>, <<"d", "e", "v", NL>>}

\* Standard output of `git ls-remote --heads origin <branch>`.
LsRemoteOutputs == {<<>>, <<"h", NL>>}

\* ------------------------------------------------------------------ results

\* A value or a panic (an unwrap, an expect or an index that failed).
Ok(v) == [panic |-> FALSE, val |-> v]
Panicked == [panic |-> TRUE, val |-> <<>>]

\* ------------------------------------------------------------------ pure parts

\* get_modified_files, given the standard output of `git diff --name-only`:
\* its lines, the empty ones dropped.
get_modified_files(stdout) == SelectSeq(Lines(stdout, <<>>), LAMBDA l : Len(l) > 0)

\* get_current_branch: None when git cannot be launched, otherwise Some of the
\* trimmed standard output, whatever it is.
get_current_branch(launched, stdout) ==
    IF launched THEN Some(Trim(stdout)) ELSE None

\* &self.config.commit_templates["feature"]: HashMap's Index panics on a
\* missing key.
FeatureTemplate(cfg) ==
    IF "feature" \in DOMAIN cfg.commit_templates
    THEN Ok(cfg.commit_templates["feature"])
    ELSE Panicked

\* A lookup whose miss yields the bare placeholder instead of the "feature"
\* template.
TemplateOf_NoFallback(cfg, change) ==
    LET fallback == FeatureTemplate(cfg)
    IN  IF fallback.panic THEN Panicked
        ELSE IF change.type_ \in DOMAIN cfg.commit_templates
             THEN Ok(cfg.commit_templates[change.type_])
             ELSE Ok(Placeholder)

\* .get(&change.type_).unwrap_or(&self.config.commit_templates["feature"]):
\* unwrap_or takes its argument by value, so the index is evaluated (and can
\* panic) before the lookup's result is looked at.
TemplateOf(cfg, change) ==
    LET fallback == FeatureTemplate(cfg)
    IN  IF fallback.panic THEN Panicked
        ELSE IF change.type_ \in DOMAIN cfg.commit_templates
             THEN Ok(cfg.commit_templates[change.type_])
             ELSE fallback

\* change.files.iter().map(|f| format!("- {}", f)).collect().join("\n")
FileLines(files) ==
    Join([i \in 1..Len(files) |-> <<"-", " ">> \o files[i]], <<NL>>)

\* A block that is left empty when the description is empty.
Block_SkipEmptyDescription(cfg, change) ==
    LET t == TemplateOf(cfg, change)
    IN  IF t.panic THEN Panicked
        ELSE IF Len(change.description) = 0 THEN Ok(<<>>)
        ELSE LET template == Replace(t.val, Placeholder, change.description)
             IN  IF Len(change.files) = 0
                 THEN Ok(template)
                 ELSE Ok(template \o <<NL, NL>> \o FileLines(change.files))

\* A block whose file lines follow the template after a single newline.
Block_NoBlankLine(cfg, change) ==
    LET t == TemplateOf(cfg, change)
    IN  IF t.panic THEN Panicked
        ELSE LET template == Replace(t.val, Placeholder, change.description)
             IN  IF Len(change.files) = 0
                 THEN Ok(template)
                 ELSE Ok(template \o <<NL>> \o FileLines(change.files))

\* The closure of generate_commit_message: one change's block.
Block(cfg, change) ==
    LET t == TemplateOf(cfg, change)
    IN  IF t.panic THEN Panicked
        ELSE LET template == Replace(t.val, Placeholder, change.description)
             IN  IF Len(change.files) = 0
                 THEN Ok(template)
                 ELSE Ok(template \o <<NL, NL>> \o FileLines(change.files))

\* "No changes recorded"
NoChangesRecorded ==
    <<"N", "o", " ", "c", "h", "a", "n", "g", "e", "s", " ",
      "r", "e", "c", "o", "r", "d", "e", "d">>

generate_commit_message(cfg, chs) ==
    IF Len(chs) = 0 THEN Ok(NoChangesRecorded)
    ELSE LET blocks == [i \in 1..Len(chs) |-> Block(cfg, chs[i])]
         IN  IF \E i \in 1..Len(chs) : blocks[i].panic THEN Panicked
             ELSE Ok(Join([i \in 1..Len(chs) |-> blocks[i].val], <<NL, NL>>))

\* ------------------------------------------------------------------ output

\* One println!: its format string and the values it interpolates.
Line(fmt) == [fmt |-> fmt, idx |-> 0, ts |-> "", type_ |-> "", text |-> <<>>]
LineT(fmt, text) == [Line(fmt) EXCEPT !.text = text]

\* The lines Commands::List prints for a log.
ListOutput(chs) ==
    IF Len(chs) = 0 THEN <<Line("No changes recorded yet")>>
    ELSE LET entry(i) ==
                <<[fmt   |-> "{}. [{}] {}: {}",
                   idx   |-> i,
                   ts    |-> chs[i].timestamp,
                   type_ |-> chs[i].type_,
                   text  |-> chs[i].description]>>
                \o (IF Len(chs[i].files) = 0 THEN <<>>
                    ELSE <<LineT("   Files: {}", Join(chs[i].files, <<",", " ">>))>>)
             RECURSIVE from(_)
             from(i) == IF i > Len(chs) THEN <<>> ELSE entry(i) \o from(i + 1)
         IN  <<Line("\nRecorded changes:")>> \o from(1)

\* A git process that ran: its arguments (the variable one apart), whether it
\* exited with success, and its standard output.
Call(cmd, arg, success, stdout) ==
    [cmd |-> cmd, arg |-> arg, success |-> success, stdout |-> stdout]

\* ------------------------------------------------------------------ state

VARIABLES
    cfgFile,    \* .gt-config.json: NoFile, Corrupt, or JsonFile(<<config>>)
    chgFile,    \* .gt-changes.json: NoFile, Corrupt, or JsonFile(ToJson(log))
    pc,         \* per invocation: where it is
    cmd,        \* per invocation: the parsed command line
    config,     \* per invocation: GitTracker.config
    changes,    \* per invocation: GitTracker.changes
    branch,     \* per invocation: commit_and_push's resolved `branch`
    remote_branch_exists,   \* per invocation: commit_and_push's local
    calls,      \* per invocation: the git processes it has run, in order
    out,        \* per invocation: the lines it has printed
    result,     \* per invocation: "none" while running, then "ok", "err", "panic"
    fault,      \* per invocation: the last failure of its environment:
                \* "none", "load" (new() could not read or seed a store),
                \* "launch" (git could not be started), "write"
    changes0,   \* per invocation: self.changes as new() loaded it
    chgFile0,   \* per invocation: .gt-changes.json as new() found it
    prevList    \* what the previous invocation printed, if it was a list

vars == <<cfgFile, chgFile, pc, cmd, config, changes, branch,
          remote_branch_exists, calls, out, result, fault, changes0, chgFile0,
          prevList>>

\* The Commands enum after Cli::parse.
AddCmd(type_, message) ==
    [name |-> "add", message |-> message, type_ |-> type_,
     branch |-> None, no_push |-> FALSE]
CommitCmd(b, no_push) ==
    [name |-> "commit", message |-> <<>>, type_ |-> "",
     branch |-> b, no_push |-> no_push]
ListCmd ==
    [name |-> "list", message |-> <<>>, type_ |-> "",
     branch |-> None, no_push |-> FALSE]

AddCommands == {AddCmd(a[1], a[2]) : a \in AddInputs}

Commands ==
    AddCommands
    \cup {CommitCmd(b, n) : b \in BranchArgs, n \in BOOLEAN}
    \cup {ListCmd}

Set(f, p, v) == [f EXCEPT ![p] = v]

\* The statements of main and commit_and_push an invocation can be at.
PcValues ==
    {"idle", "add", "list", "commit", "status", "branch", "stage", "staged",
     "message", "push_decide", "ls_remote", "push", "done"}

\* The shape of the state: the two files, and per invocation the GitTracker
\* fields, the locals of commit_and_push and what the invocation has done.
TypeOK ==
    /\ cfgFile.state \in {"absent", "corrupt", "json"}
    /\ cfgFile.state = "json" => Len(cfgFile.body) = 1 /\ cfgFile.body[1] \in Config
    /\ chgFile.state \in {"absent", "corrupt", "json"}
    /\ Len(chgFile.body) <= MaxLog
    /\ pc \in [Procs -> PcValues]
    /\ result \in [Procs -> {"none", "ok", "err", "panic"}]
    /\ fault \in [Procs -> {"none", "load", "launch", "write"}]
    /\ remote_branch_exists \in [Procs -> BOOLEAN]
    /\ \A p \in Procs :
          /\ cmd[p] \in Commands
          /\ config[p] \in Config
          /\ Len(changes[p]) <= MaxLog
          /\ Len(changes0[p]) <= MaxLog
          /\ (pc[p] = "done") = (result[p] # "none")

\* No invocation has started; the working directory holds the two files.
InitWith(cfgFiles, chgFiles) ==
    /\ cfgFile \in cfgFiles
    /\ chgFile \in chgFiles
    /\ pc = [p \in Procs |-> "idle"]
    /\ cmd = [p \in Procs |-> ListCmd]
    /\ config = [p \in Procs |-> DefaultConfig]
    /\ changes = [p \in Procs |-> <<>>]
    /\ branch = [p \in Procs |-> <<>>]
    /\ remote_branch_exists = [p \in Procs |-> FALSE]
    /\ calls = [p \in Procs |-> <<>>]
    /\ out = [p \in Procs |-> <<>>]
    /\ result = [p \in Procs |-> "none"]
    /\ fault = [p \in Procs |-> "none"]
    /\ changes0 = [p \in Procs |-> <<>>]
    /\ chgFile0 = [p \in Procs |-> NoFile]
    /\ prevList = None

Init ==
    InitWith({NoFile, Corrupt} \cup {JsonFile(<<c>>) : c \in Config},
             {NoFile, Corrupt, JsonFile(ToJson(<<>>))})

\* The invocation ends: Ok(()) from main ("ok"), an Err from a `?` ("err"), or
\* a panic; f is the failure of the environment that ended it, "none" when
\* it ended for another reason.
Finish(p, res, f) ==
    /\ pc' = Set(pc, p, "done")
    /\ result' = Set(result, p, res)
    /\ fault' = Set(fault, p, IF f = "none" THEN fault[p] ELSE f)

Goto(p, where) ==
    /\ pc' = Set(pc, p, where)
    /\ UNCHANGED <<result, fault>>

println(p, ls) == out' = Set(out, p, out[p] \o ls)

Ran(p, call) == calls' = Set(calls, p, Append(calls[p], call))

\* A save that writes only the newest entry.
save_changes_LastOnly(chs, w) ==
    chgFile' = Written(chgFile, ToJson(SubSeq(chs, Len(chs), Len(chs))), w)

\* A save that re-reads the store and adds the newest entry to what it holds.
save_changes_Merge(chs, w) ==
    chgFile' = Written(chgFile,
                       IF chgFile.state = "json" /\ Len(chs) > 0
                       THEN chgFile.body \o ToJson(SubSeq(chs, Len(chs), Len(chs)))
                       ELSE ToJson(chs),
                       w)

\* save_changes: fs::write(...).unwrap() of the whole in-memory list `chs`.
save_changes(chs, w) == chgFile' = Written(chgFile, ToJson(chs), w)

\* ------------------------------------------------------------------ new()

\* GitTracker::new as far as the config: the loaded Config, or a panic.
LoadConfig(w) ==
    CASE cfgFile.state = "json"    -> Ok(cfgFile.body[1])
      [] cfgFile.state = "corrupt" -> Panicked
      [] cfgFile.state = "absent"  -> IF w = "ok" THEN Ok(DefaultConfig) ELSE Panicked

\* GitTracker::new as far as the change log.
LoadChanges ==
    CASE chgFile.state = "json"    -> Ok(FromJson(chgFile.body))
      [] chgFile.state = "corrupt" -> Panicked
      [] chgFile.state = "absent"  -> Ok(<<>>)

\* main up to the match: the command line is parsed (one of `cmds`) and new()
\* loads both stores, seeding the config file when there is none.
StartWith(p, cmds) ==
    /\ pc[p] \in {"idle", "done"}
    /\ \E c \in cmds, w \in WriteOutcomes :
        LET cfg == LoadConfig(w)
            chs == LoadChanges
        IN  /\ (c.name = "add" /\ ~chs.panic) => Len(chs.val) < MaxLog
            /\ cmd' = Set(cmd, p, c)
            /\ cfgFile' = IF cfgFile.state = "absent"
                          THEN Written(cfgFile, <<DefaultConfig>>, w)
                          ELSE cfgFile
            /\ (cfgFile.state # "absent" => w = "ok")
            /\ config' = Set(config, p, IF cfg.panic THEN config[p] ELSE cfg.val)
            /\ changes' = Set(changes, p,
                              IF cfg.panic \/ chs.panic THEN <<>> ELSE chs.val)
            /\ changes0' = Set(changes0, p,
                               IF cfg.panic \/ chs.panic THEN <<>> ELSE chs.val)
            /\ chgFile0' = Set(chgFile0, p, chgFile)
            /\ branch' = Set(branch, p, <<>>)
            /\ remote_branch_exists' = Set(remote_branch_exists, p, FALSE)
            /\ calls' = Set(calls, p, <<>>)
            /\ out' = Set(out, p, <<>>)
            /\ prevList' = IF pc[p] = "done" /\ result[p] = "ok" /\ cmd[p].name = "list"
                           THEN Some(out[p]) ELSE None
            /\ IF cfg.panic \/ chs.panic
               THEN Finish(p, "panic", "load")
               ELSE /\ pc' = Set(pc, p, c.name)
                    /\ result' = Set(result, p, "none")
                    /\ fault' = Set(fault, p, "none")
            /\ UNCHANGED chgFile

\* An invocation with any command line.
Start(p) == StartWith(p, Commands)

\* The only invocation of p, with one of the command lines `cmds`.
StartOnce(p, cmds) == pc[p] = "idle" /\ StartWith(p, cmds)

\* ------------------------------------------------------------------ add

\* Commands::Add: add_change(message, type_).
add_change(p) ==
    /\ pc[p] = "add"
    /\ \E launched \in BOOLEAN, stdout \in DiffOutputs, ts \in Timestamps,
          w \in WriteOutcomes :
        IF ~launched
        THEN \* .expect("Failed to execute git command")
             /\ Finish(p, "panic", "launch")
             /\ UNCHANGED <<chgFile, changes, calls, out>>
        ELSE LET files == get_modified_files(stdout)
                 pushed == Append(changes[p],
                                  [timestamp   |-> ts,
                                   type_       |-> cmd[p].type_,
                                   description |-> cmd[p].message,
                                   files       |-> files])
             IN  /\ Ran(p, Call("diff --name-only", <<>>, TRUE, stdout))
                 /\ changes' = Set(changes, p, pushed)
                 /\ save_changes(pushed, w)
                 /\ IF w = "ok"
                    THEN /\ println(p,
                               <<[LineT("Recorded {}: {}", cmd[p].message)
                                     EXCEPT !.type_ = cmd[p].type_]>>
                               \o (IF Len(files) = 0 THEN <<>>
                                   ELSE <<LineT("  Modified files: {}",
                                                Join(files, <<",", " ">>))>>))
                         /\ Finish(p, "ok", "none")
                    ELSE /\ UNCHANGED out
                         /\ Finish(p, "panic", "write")
    /\ UNCHANGED <<cfgFile, cmd, config, branch, remote_branch_exists,
                   changes0, chgFile0, prevList>>

\* ------------------------------------------------------------------ list

\* A list that persists the log it has just printed.
List_Saving(p) ==
    /\ pc[p] = "list"
    /\ println(p, ListOutput(changes[p]))
    /\ save_changes(changes[p], "ok")
    /\ Finish(p, "ok", "none")
    /\ UNCHANGED <<cfgFile, cmd, config, changes, branch,
                   remote_branch_exists, calls, changes0, chgFile0, prevList>>

\* Commands::List.
List(p) ==
    /\ pc[p] = "list"
    /\ println(p, ListOutput(changes[p]))
    /\ Finish(p, "ok", "none")
    /\ UNCHANGED <<cfgFile, chgFile, cmd, config, changes, branch,
                   remote_branch_exists, calls, changes0, chgFile0, prevList>>

\* ------------------------------------------------------------------ commit

\* A clear that is not persisted.
ClearAndReturn_NoSave(p, w) ==
    /\ changes' = Set(changes, p, <<>>)
    /\ UNCHANGED chgFile
    /\ IF w = "ok" THEN Finish(p, "ok", "none") ELSE Finish(p, "panic", "write")

\* A clear that drops from the store only the entries this invocation loaded.
ClearAndReturn_KeepNew(p, w) ==
    /\ changes' = Set(changes, p, <<>>)
    /\ chgFile' = Written(chgFile,
                          IF chgFile.state = "json"
                          THEN SubSeq(chgFile.body, Len(changes[p]) + 1,
                                      Len(chgFile.body))
                          ELSE <<>>,
                          w)
    /\ IF w = "ok" THEN Finish(p, "ok", "none") ELSE Finish(p, "panic", "write")

\* self.changes.clear(); self.save_changes(); Ok(())
ClearAndReturn(p, w) ==
    /\ changes' = Set(changes, p, <<>>)
    /\ save_changes(<<>>, w)
    /\ IF w = "ok" THEN Finish(p, "ok", "none") ELSE Finish(p, "panic", "write")

\* The empty-log guard left out.
NothingRecorded_Never(chs) == FALSE

\* if self.changes.is_empty()
NothingRecorded(chs) == Len(chs) = 0

\* The clean-tree check left out.
StatusClean_Never(stdout) == FALSE

\* if status_output.stdout.is_empty()
StatusClean(stdout) == Len(stdout) = 0

\* commit_and_push, lines 180-193: the empty-log guard, then
\* `git rev-parse --git-dir`.
RevParse(p) ==
    /\ pc[p] = "commit"
    /\ IF NothingRecorded(changes[p])
       THEN /\ println(p, <<Line("No changes to commit")>>)
            /\ Finish(p, "ok", "none")
            /\ UNCHANGED calls
       ELSE \E launched \in BOOLEAN, success \in BOOLEAN :
            IF ~launched
            THEN Finish(p, "err", "launch") /\ UNCHANGED <<calls, out>>
            ELSE /\ Ran(p, Call("rev-parse --git-dir", <<>>, success, <<>>))
                 /\ IF success
                    THEN Goto(p, "status") /\ UNCHANGED out
                    ELSE /\ println(p, <<Line("Not in a git repository")>>)
                         /\ Finish(p, "ok", "none")
    /\ UNCHANGED <<cfgFile, chgFile, cmd, config, changes, branch,
                   remote_branch_exists, changes0, chgFile0, prevList>>

\* Lines 195-203: `git status --porcelain`; its exit status is not read.
Status(p) ==
    /\ pc[p] = "status"
    /\ \E launched \in BOOLEAN, stdout \in StatusOutputs :
        IF ~launched
        THEN Finish(p, "err", "launch") /\ UNCHANGED <<calls, out>>
        ELSE /\ Ran(p, Call("status --porcelain", <<>>, TRUE, stdout))
             /\ IF StatusClean(stdout)
                THEN /\ println(p, <<Line("No git changes detected to commit")>>)
                     /\ Finish(p, "ok", "none")
                ELSE Goto(p, "branch") /\ UNCHANGED out
    /\ UNCHANGED <<cfgFile, chgFile, cmd, config, changes, branch,
                   remote_branch_exists, changes0, chgFile0, prevList>>

\* branch.or_else(|| self.get_current_branch())
\*       .unwrap_or_else(|| self.config.default_branch.clone())
ResolvedBranch(override, current, default_branch) ==
    IF override.some THEN override.val
    ELSE IF current.some THEN current.val
    ELSE default_branch

\* Lines 205-206: the target branch; git is asked only without an override.
ResolveBranch(p) ==
    /\ pc[p] = "branch"
    /\ IF cmd[p].branch.some
       THEN /\ branch' = Set(branch, p,
                             ResolvedBranch(cmd[p].branch, None, config[p].default_branch))
            /\ UNCHANGED calls
            /\ UNCHANGED fault
       ELSE \E launched \in BOOLEAN, stdout \in BranchOutputs :
            /\ branch' = Set(branch, p,
                             ResolvedBranch(cmd[p].branch,
                                            get_current_branch(launched, stdout),
                                            config[p].default_branch))
            /\ IF launched
               THEN /\ Ran(p, Call("branch --show-current", <<>>, TRUE, stdout))
                    /\ UNCHANGED fault
               ELSE /\ fault' = Set(fault, p, "launch")
                    /\ UNCHANGED calls
    /\ pc' = Set(pc, p, "stage")
    /\ UNCHANGED result
    /\ UNCHANGED <<cfgFile, chgFile, cmd, config, changes, remote_branch_exists,
                   out, changes0, chgFile0, prevList>>

\* Lines 208-213: `git add .`
Stage(p) ==
    /\ pc[p] = "stage"
    /\ \E launched \in BOOLEAN, success \in BOOLEAN :
        IF ~launched
        THEN /\ println(p, <<Line("Staging changes...")>>)
             /\ Finish(p, "err", "launch")
             /\ UNCHANGED calls
        ELSE /\ Ran(p, Call("add .", <<>>, success, <<>>))
             /\ IF success
                THEN /\ println(p, <<Line("Staging changes...")>>)
                     /\ Goto(p, "staged")
                ELSE /\ println(p, <<Line("Staging changes..."),
                                     Line("Failed to stage changes")>>)
                     /\ Finish(p, "ok", "none")
    /\ UNCHANGED <<cfgFile, chgFile, cmd, config, changes, branch,
                   remote_branch_exists, changes0, chgFile0, prevList>>

\* A staged check that always reports something staged.
NothingStaged_Never(success) == FALSE

\* Line 220: `git diff --cached --quiet` succeeds when nothing is staged.
NothingStaged(success) == success

\* Lines 215-223: the staged check.
Staged(p) ==
    /\ pc[p] = "staged"
    /\ \E launched \in BOOLEAN, success \in BOOLEAN :
        IF ~launched
        THEN Finish(p, "err", "launch") /\ UNCHANGED <<calls, out>>
        ELSE /\ Ran(p, Call("diff --cached --quiet", <<>>, success, <<>>))
             /\ IF NothingStaged(success)
                THEN /\ println(p, <<Line("No changes were staged")>>)
                     /\ Finish(p, "ok", "none")
                ELSE Goto(p, "message") /\ UNCHANGED out
    /\ UNCHANGED <<cfgFile, chgFile, cmd, config, changes, branch,
                   remote_branch_exists, changes0, chgFile0, prevList>>

\* A failed commit that is taken for a successful one.
CommitFailed_Never(success) == FALSE

\* Lines 240-243: the commit command exited unsuccessfully.
CommitFailed(success) == ~success

\* Lines 225-243: the commit message, then `git commit -m <message>`.
Commit(p) ==
    /\ pc[p] = "message"
    /\ LET commit_message == generate_commit_message(config[p], changes[p])
       IN  IF commit_message.panic
           THEN Finish(p, "panic", "none") /\ UNCHANGED <<calls, out>>
           ELSE IF Len(commit_message.val) = 0
           THEN /\ println(p, <<Line("Empty commit message, nothing to commit")>>)
                /\ Finish(p, "ok", "none")
                /\ UNCHANGED calls
           ELSE \E launched \in BOOLEAN, success \in BOOLEAN :
                IF ~launched
                THEN /\ println(p, <<Line("Committing changes...")>>)
                     /\ Finish(p, "err", "launch")
                     /\ UNCHANGED calls
                ELSE /\ Ran(p, Call("commit -m", commit_message.val, success, <<>>))
                     /\ IF ~CommitFailed(success)
                        THEN /\ println(p, <<Line("Committing changes...")>>)
                             /\ Goto(p, "push_decide")
                        ELSE /\ println(p, <<Line("Committing changes..."),
                                             Line("Failed to commit changes")>>)
                             /\ Finish(p, "ok", "none")
    /\ UNCHANGED <<cfgFile, chgFile, cmd, config, changes, branch,
                   remote_branch_exists, changes0, chgFile0, prevList>>

\* if !no_push && self.config.auto_push
PushRequested(no_push, auto_push) == ~no_push /\ auto_push

\* Lines 245-260 and 284-292: whether to push; if so `git remote get-url
\* origin`, and without a remote (or without a push) the log is cleared.
PushDecide(p) ==
    /\ pc[p] = "push_decide"
    /\ IF PushRequested(cmd[p].no_push, config[p].auto_push)
       THEN \E launched \in BOOLEAN, success \in BOOLEAN, w \in WriteOutcomes :
            IF ~launched
            THEN /\ w = "ok"
                 /\ println(p, <<Line("Pushing to remote...")>>)
                 /\ Finish(p, "err", "launch")
                 /\ UNCHANGED <<calls, changes, chgFile>>
            ELSE /\ Ran(p, Call("remote get-url origin", <<>>, success, <<>>))
                 /\ IF success
                    THEN /\ w = "ok"
                         /\ println(p, <<Line("Pushing to remote...")>>)
                         /\ Goto(p, "ls_remote")
                         /\ UNCHANGED <<changes, chgFile>>
                    ELSE /\ println(p,
                               <<Line("Pushing to remote..."),
                                 Line("Remote 'origin' not found"),
                                 Line("Changes committed successfully (push skipped - no remote)")>>)
                         /\ ClearAndReturn(p, w)
       ELSE \E w \in WriteOutcomes :
            /\ println(p, <<Line("Successfully committed changes (push skipped)")>>)
            /\ ClearAndReturn(p, w)
            /\ UNCHANGED calls
    /\ UNCHANGED <<cfgFile, cmd, config, branch, remote_branch_exists,
                   changes0, chgFile0, prevList>>

\* Lines 262-267: `git ls-remote --heads origin <branch>`; stdout.len() > 0.
LsRemote(p) ==
    /\ pc[p] = "ls_remote"
    /\ \E launched \in BOOLEAN, stdout \in LsRemoteOutputs :
        IF ~launched
        THEN /\ Finish(p, "err", "launch")
             /\ UNCHANGED <<calls, remote_branch_exists>>
        ELSE /\ Ran(p, Call("ls-remote --heads origin", branch[p], TRUE, stdout))
             /\ remote_branch_exists' = Set(remote_branch_exists, p, Len(stdout) > 0)
             /\ Goto(p, "push")
    /\ UNCHANGED <<cfgFile, chgFile, cmd, config, changes, branch, out,
                   changes0, chgFile0, prevList>>

\* A push that never creates the upstream branch.
push_args_Plain(exists) == "push origin"

\* let push_args = if !remote_branch_exists { push -u origin } else { push origin }
push_args(exists) == IF ~exists THEN "push -u origin" ELSE "push origin"

\* A push whose failure does not return early, so the log is cleared anyway.
PushResult_AlwaysClear(p, success, w, creating) ==
    /\ println(p, creating \o
           (IF success
            THEN <<LineT("Successfully pushed changes to {}", branch[p])>>
            ELSE <<Line("Failed to push changes to remote")>>))
    /\ ClearAndReturn(p, w)

\* Lines 276-292: what follows the push process: after a successful push the
\* log is cleared, after a failed one the function returns with the log kept.
PushResult(p, success, w, creating) ==
    IF success
    THEN /\ println(p, creating \o
                <<LineT("Successfully pushed changes to {}", branch[p])>>)
         /\ ClearAndReturn(p, w)
    ELSE /\ w = "ok"
         /\ println(p, creating \o
                <<Line("Failed to push changes to remote"),
                  Line("  Your commits are saved locally. To push later, run:"),
                  LineT("  git push origin {}", branch[p])>>)
         /\ Finish(p, "ok", "none")
         /\ UNCHANGED <<changes, chgFile>>

\* Lines 269-292: the push and what follows it.
Push(p) ==
    /\ pc[p] = "push"
    /\ LET creating == IF ~remote_branch_exists[p]
                       THEN <<LineT("Creating new remote branch '{}'...", branch[p])>>
                       ELSE <<>>
       IN  \E launched \in BOOLEAN, success \in BOOLEAN, w \in WriteOutcomes :
           IF ~launched
           THEN /\ w = "ok"
                /\ println(p, creating)
                /\ Finish(p, "err", "launch")
                /\ UNCHANGED <<calls, changes, chgFile>>
           ELSE /\ Ran(p, Call(push_args(remote_branch_exists[p]), branch[p], success, <<>>))
                /\ PushResult(p, success, w, creating)
    /\ UNCHANGED <<cfgFile, cmd, config, branch, remote_branch_exists,
                   changes0, chgFile0, prevList>>

\* ------------------------------------------------------------------ specification

\* Commands::Commit: the steps of commit_and_push.
commit_and_push(p) ==
    \/ RevParse(p)
    \/ Status(p)
    \/ ResolveBranch(p)
    \/ Stage(p)
    \/ Staged(p)
    \/ Commit(p)
    \/ PushDecide(p)
    \/ LsRemote(p)
    \/ Push(p)

Step(p) ==
    \/ Start(p)
    \/ add_change(p)
    \/ List(p)
    \/ commit_and_push(p)

\* One invocation at a time: the usage the tool is written for.
Next == Step(1)

Spec == Init /\ [][Next]_vars

\* A change recorded by an earlier `add`.
RecordedChange ==
    [timestamp |-> CHOOSE ts \in Timestamps : TRUE, type_ |-> "feature",
     description |-> <<"X">>, files |-> <<>>]

\* Two terminals in a working directory that has a config file and a store
\* left by earlier invocations.
InitConcurrent ==
    InitWith({JsonFile(<<c>>) : c \in Config},
             {JsonFile(ToJson(<<>>)), JsonFile(ToJson(<<RecordedChange>>))})

\* Two invocations in the same working directory without coordination: the
\* steps of an `add` or a `commit` interleave with those of an `add` run
\* meanwhile from the other terminal.
NextConcurrent ==
    \/ StartOnce(1, Commands \ {ListCmd})
    \/ add_change(1)
    \/ commit_and_push(1)
    \/ StartOnce(2, AddCommands)
    \/ add_change(2)

SpecConcurrent == InitConcurrent /\ [][NextConcurrent]_vars

\* ------------------------------------------------------------------ claims

PushCmds == {"push -u origin", "push origin"}

\* The invocation p has run one of the git commands `cs`.
Made(p, cs) == \E i \in DOMAIN calls[p] : calls[p][i].cmd \in cs

\* ... and it exited with success / with failure.
Succeeded(p, cs) ==
    \E i \in DOMAIN calls[p] : calls[p][i].cmd \in cs /\ calls[p][i].success
Failed(p, cs) ==
    \E i \in DOMAIN calls[p] : calls[p][i].cmd \in cs /\ ~calls[p][i].success

\* new() has built the tracker and main has dispatched the command `name`.
Running(p, name) == cmd[p].name = name /\ pc[p] # "idle" /\ fault[p] # "load"

\* The command has returned to main (Ok or Err), as opposed to panicking.
Returned(p) == pc[p] = "done" /\ result[p] \in {"ok", "err"}

EmptyStore == JsonFile(ToJson(<<>>))

\* The four ways of claim C1 in which the push "does not fail".
PushDidNotFail(p) ==
    \/ Succeeded(p, PushCmds)
    \/ cmd[p].no_push
    \/ ~config[p].auto_push
    \/ Failed(p, {"remote get-url origin"})

C1_Case(p) ==
    /\ Running(p, "commit")
    /\ Returned(p)
    /\ Len(changes0[p]) > 0
    /\ Succeeded(p, {"commit -m"})
    /\ PushDidNotFail(p)

\* C1: when commit-and-push started with a non-empty log, the commit succeeded
\* and the push did not fail (it succeeded, was suppressed by --no-push, was
\* disabled by auto_push = false, or there is no remote 'origin'), the log in
\* memory and the store on disk are both empty when the operation returns.
C1_ClearedAfterSuccess ==
    \A p \in Procs :
        C1_Case(p) => changes[p] = <<>> /\ chgFile = EmptyStore

\* Scenario D: the commit succeeded and there is no remote 'origin'.
C1_Witness ==
    \E p \in Procs : C1_Case(p) /\ Failed(p, {"remote get-url origin"})

C2_Case(p) ==
    /\ Running(p, "commit")
    /\ pc[p] = "done"
    /\ Succeeded(p, {"commit -m"})
    /\ Failed(p, PushCmds)

\* C2: when the commit succeeded and the push failed, the log in memory and
\* the store on disk are what they were before the operation started.
C2_KeptAfterPushFailure ==
    \A p \in Procs :
        C2_Case(p) => changes[p] = changes0[p] /\ chgFile = chgFile0[p]

C2_Witness ==
    \E p \in Procs : C2_Case(p) /\ result[p] = "ok" /\ Len(changes0[p]) > 0

C3_Case(p) ==
    /\ Running(p, "commit")
    /\ \E i \in DOMAIN calls[p] :
          calls[p][i].cmd = "status --porcelain" /\ calls[p][i].stdout = <<>>

\* C3: when the status query reports no differences, no stage, commit or push
\* call is made and the log, in memory and on disk, is unchanged.
C3_CleanTreeStops ==
    \A p \in Procs :
        C3_Case(p) =>
            /\ ~Made(p, {"add .", "commit -m"} \cup PushCmds)
            /\ changes[p] = changes0[p]
            /\ chgFile = chgFile0[p]

C3_Witness ==
    \E p \in Procs : C3_Case(p) /\ pc[p] = "done" /\ Len(changes0[p]) > 0

C4_Case(p) == Running(p, "commit") /\ Len(changes0[p]) = 0

\* C4: commit-and-push started with an empty log stops at the first step with
\* the "nothing to commit" report: no call is made to git and the log, in
\* memory and on disk, is left unchanged.
C4_EmptyLogStops ==
    \A p \in Procs :
        C4_Case(p) =>
            /\ calls[p] = <<>>
            /\ changes[p] = changes0[p]
            /\ chgFile = chgFile0[p]
            /\ pc[p] \in {"commit", "done"}
            /\ pc[p] = "done" =>
                  result[p] = "ok" /\ out[p] = <<Line("No changes to commit")>>

C4_Witness == \E p \in Procs : C4_Case(p) /\ pc[p] = "done"

C5_Case(p) == Running(p, "add") /\ pc[p] = "done" /\ result[p] = "ok"

\* C5: a record-change that completes leaves the log equal to the prior log
\* with exactly one entry appended, whose type and description are the inputs
\* verbatim, and the store on disk holds that same full list.
C5_AddAppendsOne ==
    \A p \in Procs :
        C5_Case(p) =>
            LET n == Len(changes0[p])
            IN  /\ Len(changes[p]) = n + 1
                /\ SubSeq(changes[p], 1, n) = changes0[p]
                /\ changes[p][n + 1].type_ = cmd[p].type_
                /\ changes[p][n + 1].description = cmd[p].message
                /\ chgFile.state = "json"
                /\ FromJson(chgFile.body) = changes[p]

C5_Witness == \E p \in Procs : C5_Case(p) /\ Len(changes0[p]) > 0

C6_Case(p) == Running(p, "list") /\ pc[p] = "done"

\* C6: list never changes the log: after it the log in memory and the store
\* on disk (its absence included) are as before, no call was made to git, and
\* a list that directly follows a list prints the same lines.
C6_ListIsReadOnly ==
    \A p \in Procs :
        C6_Case(p) =>
            /\ result[p] = "ok"
            /\ changes[p] = changes0[p]
            /\ chgFile = chgFile0[p]
            /\ calls[p] = <<>>
            /\ prevList.some => out[p] = prevList.val

C6_Witness ==
    \E p \in Procs : C6_Case(p) /\ prevList.some /\ Len(changes[p]) > 0

\* The store does not exist and list leaves it so.
C6_WitnessAbsent ==
    \E p \in Procs : C6_Case(p) /\ prevList.some /\ chgFile = NoFile

\* The branch claim C7 says commit-and-push targets: the override; else the
\* name the current-branch query printed, when it printed one; else the
\* config's default_branch.
ClaimedBranch(p) ==
    LET detected == {i \in DOMAIN calls[p] :
                        /\ calls[p][i].cmd = "branch --show-current"
                        /\ Len(Trim(calls[p][i].stdout)) > 0}
    IN  IF cmd[p].branch.some THEN cmd[p].branch.val
        ELSE IF detected # {}
             THEN Trim(calls[p][CHOOSE i \in detected : TRUE].stdout)
             ELSE config[p].default_branch

\* C7: the target branch is the --branch override when given; otherwise the
\* name returned by the current-branch query when a branch is detected;
\* otherwise (the query yields no branch name) the config's default_branch;
\* and that name is the one passed to the remote-heads query and to push.
C7_BranchResolution ==
    \A p \in Procs :
        Running(p, "commit") =>
            /\ pc[p] \in {"stage", "staged", "message", "push_decide", "ls_remote", "push"}
                  => branch[p] = ClaimedBranch(p)
            /\ \A i \in DOMAIN calls[p] :
                  calls[p][i].cmd \in {"ls-remote --heads origin"} \cup PushCmds
                      => calls[p][i].arg = ClaimedBranch(p)

\* The lines "- <file>", one per file, each on its own line.
RECURSIVE Bullets(_)
Bullets(files) ==
    IF Len(files) = 1 THEN <<"-", " ">> \o files[1]
    ELSE Bullets(SubSeq(files, 1, Len(files) - 1))
         \o <<NL>> \o <<"-", " ">> \o files[Len(files)]

\* A block as the spec words it, for the template `tpl`.
SpecBlockWith(tpl, change) ==
    Replace(tpl, Placeholder, change.description)
    \o (IF Len(change.files) = 0 THEN <<>> ELSE <<NL, NL>> \o Bullets(change.files))

\* A log in which every type the mapping does not know is written "feature".
AsFeature(cfg, chs) ==
    [i \in 1..Len(chs) |->
        IF chs[i].type_ \in DOMAIN cfg.commit_templates THEN chs[i]
        ELSE [chs[i] EXCEPT !.type_ = "feature"]]

\* C8: for a change whose type is not a key of the template mapping,
\* generation produces the block it would produce for a change of type
\* "feature" with the same description and files: the "feature" template with
\* {message} replaced by the description.  So the message handed to git commit
\* is the one of the log with those types rewritten to "feature".
C8_UnknownTypeUsesFeature ==
    \A p \in Procs :
        /\ \A i \in 1..Len(changes0[p]) :
              LET ch  == changes0[p][i]
                  tpl == config[p].commit_templates
              IN  ch.type_ \notin DOMAIN tpl =>
                    /\ Block(config[p], ch)
                         = Block(config[p], [ch EXCEPT !.type_ = "feature"])
                    /\ "feature" \in DOMAIN tpl =>
                          Block(config[p], ch) = Ok(SpecBlockWith(tpl["feature"], ch))
        /\ \A i \in DOMAIN calls[p] :
              calls[p][i].cmd = "commit -m" =>
                  calls[p][i].arg
                    = generate_commit_message(config[p],
                                              AsFeature(config[p], changes0[p])).val

\* A commit was made from a log that holds a change of an unknown type.
C8_Witness ==
    \E p \in Procs :
        /\ Running(p, "commit")
        /\ Made(p, {"commit -m"})
        /\ \E i \in 1..Len(changes0[p]) :
              /\ changes0[p][i].type_ \notin DOMAIN config[p].commit_templates
              /\ Len(changes0[p][i].files) > 0

\* The template the spec gives a change: its own, else the "feature" one.
SpecTemplate(cfg, change) ==
    IF change.type_ \in DOMAIN cfg.commit_templates
    THEN cfg.commit_templates[change.type_]
    ELSE cfg.commit_templates["feature"]

RECURSIVE SpecMessage(_, _)
\* The message as the spec words it: the blocks in log order, a blank line
\* between two blocks.
SpecMessage(cfg, chs) ==
    IF Len(chs) = 1 THEN SpecBlockWith(SpecTemplate(cfg, chs[1]), chs[1])
    ELSE SpecMessage(cfg, SubSeq(chs, 1, Len(chs) - 1))
         \o <<NL, NL>>
         \o SpecBlockWith(SpecTemplate(cfg, chs[Len(chs)]), chs[Len(chs)])

\* Scenario B: (feature, X), (fix, Y), no files, under the default templates.
ScenarioB(chs) ==
    /\ Len(chs) = 2
    /\ chs[1].type_ = "feature" /\ chs[1].description = <<"X">> /\ chs[1].files = <<>>
    /\ chs[2].type_ = "fix" /\ chs[2].description = <<"Y">> /\ chs[2].files = <<>>

ScenarioBMessage ==
    <<"f", "e", "a", "t", ":", " ", "X", NL, NL, "f", "i", "x", ":", " ", "Y">>

\* C9: the generated message is the blocks of the changes in log order, none
\* dropped or reordered, joined by a blank line; a block is the change's
\* template with {message} replaced by its description, followed, only when
\* the change has files, by a blank line and one "- <file>" line per file in
\* recorded order; for an empty log it is the sentinel text; and with the
\* default templates (feature, X), (fix, Y) gives "feat: X", blank line,
\* "fix: Y".  It is stated of every message generation returns and of every
\* message handed to git commit.
C9_MessageShape ==
    \A p \in Procs :
        LET now == generate_commit_message(config[p], changes[p])
        IN  /\ ~now.panic =>
                  now.val = IF Len(changes[p]) = 0 THEN NoChangesRecorded
                            ELSE SpecMessage(config[p], changes[p])
            /\ (config[p] = DefaultConfig /\ ScenarioB(changes[p])) =>
                  now = Ok(ScenarioBMessage)
            /\ \A i \in DOMAIN calls[p] :
                  calls[p][i].cmd = "commit -m" =>
                      /\ Len(changes0[p]) > 0
                      /\ calls[p][i].arg = SpecMessage(config[p], changes0[p])
                      /\ (config[p] = DefaultConfig /\ ScenarioB(changes0[p])) =>
                            calls[p][i].arg = ScenarioBMessage

\* A commit was made from a log of two changes, the first with two files.
C9_Witness ==
    \E p \in Procs :
        /\ Running(p, "commit")
        /\ Made(p, {"commit -m"})
        /\ Len(changes0[p]) = 2
        /\ Len(changes0[p][1].files) = 2

\* Scenario B was committed.
C9_WitnessScenarioB ==
    \E p \in Procs :
        /\ Running(p, "commit")
        /\ Made(p, {"commit -m"})
        /\ config[p] = DefaultConfig
        /\ ScenarioB(changes0[p])

\* C10: every workflow-level failure ends commit-and-push with a normal
\* return: when every git process could be launched and the stores could be
\* read and written, commit-and-push returns Ok whatever the exit statuses.
C10_ReturnsNormally ==
    \A p \in Procs :
        (Running(p, "commit") /\ pc[p] = "done" /\ fault[p] = "none")
            => result[p] = "ok"

\* The invocation p has printed a line of the format `fmt`.
Printed(p, fmt) == \E i \in DOMAIN out[p] : out[p][i].fmt = fmt

\* commit-and-push stopped at the commit-message check (step 7).
EmptyStop(p) ==
    Running(p, "commit") /\ Printed(p, "Empty commit message, nothing to commit")

\* The staged check reported that something is staged.
SomethingStaged(p) == Failed(p, {"diff --cached --quiet"})

\* C11 as claimed: given the step-1 guard, no run of commit-and-push ever
\* stops at the commit-message check, whatever the config and the
\* descriptions.
C11_EmptyStopUnreachable == \A p \in Procs : ~EmptyStop(p)

\* C11 as amended: the stop at the commit-message check is never due to the
\* empty-log sentinel; it happens only when the generated message is the
\* empty string, that is for a log of exactly one change, without files,
\* whose template with {message} replaced by its description is empty.  A
\* run that staged something makes the commit call only if generation
\* yields a non-empty message, and always then when git can be launched.
C11_EmptyStopOnlyOnEmptyMessage ==
    \A p \in Procs :
        Running(p, "commit") =>
            /\ EmptyStop(p) =>
                  /\ Len(changes0[p]) = 1
                  /\ Len(changes0[p][1].files) = 0
                  /\ "feature" \in DOMAIN config[p].commit_templates
                  /\ Replace(SpecTemplate(config[p], changes0[p][1]), Placeholder,
                             changes0[p][1].description) = <<>>
                  /\ ~Made(p, {"commit -m"})
            /\ (SomethingStaged(p) /\ pc[p] # "message") =>
                  LET commit_message ==
                          generate_commit_message(config[p], changes0[p])
                      generated ==
                          ~commit_message.panic /\ Len(commit_message.val) > 0
                  IN  /\ Made(p, {"commit -m"}) => generated
                      /\ (generated /\ fault[p] # "launch")
                             => Made(p, {"commit -m"})
                      /\ EmptyStop(p) <=>
                             (~commit_message.panic /\ Len(commit_message.val) = 0)

\* A run with a recorded change passed step 1, staged something and stopped
\* at the commit-message check.
C11_Witness ==
    \E p \in Procs :
        /\ EmptyStop(p)
        /\ pc[p] = "done"
        /\ Len(changes0[p]) > 0
        /\ SomethingStaged(p)

\* C12: in every run of commit-and-push the change log, in memory and on
\* disk, differs from what it was before the run only if the commit call was
\* made and succeeded in that run; on the not-a-repository, clean-tree,
\* staging-failed, nothing-staged and commit-failed exits both are exactly as
\* before the run.
C12_ClearedOnlyAfterCommit ==
    \A p \in Procs :
        Running(p, "commit") =>
            /\ (changes[p] # changes0[p] \/ chgFile # chgFile0[p])
                  => Succeeded(p, {"commit -m"})
            /\ ( /\ pc[p] = "done"
                 /\ \/ Failed(p, {"rev-parse --git-dir"})
                    \/ \E i \in DOMAIN calls[p] :
                          /\ calls[p][i].cmd = "status --porcelain"
                          /\ StatusClean(calls[p][i].stdout)
                    \/ Failed(p, {"add ."})
                    \/ Succeeded(p, {"diff --cached --quiet"})
                    \/ Failed(p, {"commit -m"}) )
               => (changes[p] = changes0[p] /\ chgFile = chgFile0[p])

\* A run with recorded changes ended at the commit-failed exit.
C12_Witness ==
    \E p \in Procs :
        /\ Running(p, "commit")
        /\ pc[p] = "done"
        /\ Failed(p, {"commit -m"})
        /\ Len(changes0[p]) > 0
        /\ changes[p] = changes0[p]

\* The call number i of p comes after a call of `name` that exited with `ok`.
After(p, i, name, ok) ==
    \E j \in 1..(i - 1) : calls[p][j].cmd = name /\ calls[p][j].success = ok

\* The git commands whose failure ends commit-and-push.
GatingCmds ==
    {"rev-parse --git-dir", "add .", "commit -m", "remote get-url origin"}
        \cup PushCmds

\* The call number i of p is a step that stops the workflow.
StopsWorkflow(p, i) ==
    LET c == calls[p][i]
    IN  \/ c.cmd \in GatingCmds /\ ~c.success
        \/ c.cmd = "status --porcelain" /\ StatusClean(c.stdout)
        \/ c.cmd = "diff --cached --quiet" /\ c.success

\* C13: in commit-and-push the stage call comes only after a successful
\* repository check and a non-empty status; the commit call only after a
\* successful stage call and a staged check that reported something staged;
\* a push call only after a successful commit call, with pushing requested
\* and after a successful remote check.  No call follows a failed step, and
\* no command is called twice.
C13_StepsGateEachOther ==
    \A p \in Procs :
        Running(p, "commit") =>
            \A i \in DOMAIN calls[p] :
                LET c == calls[p][i]
                IN  /\ c.cmd = "add ." =>
                          /\ After(p, i, "rev-parse --git-dir", TRUE)
                          /\ \E j \in 1..(i - 1) :
                                /\ calls[p][j].cmd = "status --porcelain"
                                /\ ~StatusClean(calls[p][j].stdout)
                    /\ c.cmd = "commit -m" =>
                          /\ After(p, i, "add .", TRUE)
                          /\ After(p, i, "diff --cached --quiet", FALSE)
                    /\ c.cmd \in PushCmds =>
                          /\ After(p, i, "commit -m", TRUE)
                          /\ ~cmd[p].no_push
                          /\ config[p].auto_push
                          /\ After(p, i, "remote get-url origin", TRUE)
                    /\ StopsWorkflow(p, i) => i = Len(calls[p])
                    /\ \A j \in DOMAIN calls[p] :
                          calls[p][j].cmd = c.cmd => j = i

\* A run passed every gate and made a push call.
C13_Witness ==
    \E p \in Procs :
        /\ Running(p, "commit")
        /\ Made(p, PushCmds)
        /\ Succeeded(p, {"commit -m"})
        /\ Failed(p, {"diff --cached --quiet"})

\* Every change of the log has a type that is a key of the template mapping.
AllTypesKnown(cfg, chs) ==
    \A i \in 1..Len(chs) : chs[i].type_ \in DOMAIN cfg.commit_templates

RECURSIVE OwnTemplateMessage(_, _)
\* The message built from each change's own template, never the "feature" one.
OwnTemplateMessage(cfg, chs) ==
    IF Len(chs) = 1
    THEN SpecBlockWith(cfg.commit_templates[chs[1].type_], chs[1])
    ELSE OwnTemplateMessage(cfg, SubSeq(chs, 1, Len(chs) - 1))
         \o <<NL, NL>>
         \o SpecBlockWith(cfg.commit_templates[chs[Len(chs)].type_], chs[Len(chs)])

\* C14: for every log in which each change's type is a key of the template
\* mapping, generation completes and the message is built from each change's
\* own template, whether or not the mapping has a "feature" entry; so a
\* commit-and-push over such a log does not abort at the message step.
C14_FeatureOnlyAsFallback ==
    \A p \in Procs :
        ( /\ Running(p, "commit")
          /\ Len(changes0[p]) > 0
          /\ AllTypesKnown(config[p], changes0[p]) )
        => LET commit_message == generate_commit_message(config[p], changes0[p])
           IN  /\ ~commit_message.panic
               /\ commit_message.val = OwnTemplateMessage(config[p], changes0[p])
               /\ (pc[p] = "done" /\ SomethingStaged(p)) => result[p] # "panic"

\* The positions of p's push calls.
PushCalls(p) == {i \in DOMAIN calls[p] : calls[p][i].cmd \in PushCmds}

\* C15: a commit-and-push that reaches the push step makes exactly one push
\* call (none only if the git process cannot be launched), directly after the
\* remote-heads query for the same branch: `push -u origin` if and only if
\* that query printed nothing, `push origin` otherwise.
C15_OnePushByRemoteHeads ==
    \A p \in Procs :
        Running(p, "commit") =>
            /\ Cardinality(PushCalls(p)) <= 1
            /\ ( /\ pc[p] = "done"
                 /\ Made(p, {"ls-remote --heads origin"})
                 /\ result[p] = "ok" )
               => Cardinality(PushCalls(p)) = 1
            /\ \A i \in PushCalls(p) :
                  /\ i > 1
                  /\ calls[p][i - 1].cmd = "ls-remote --heads origin"
                  /\ calls[p][i - 1].arg = calls[p][i].arg
                  /\ calls[p][i].cmd = "push -u origin"
                        <=> calls[p][i - 1].stdout = <<>>
                  /\ calls[p][i].cmd = "push origin"
                        <=> Len(calls[p][i - 1].stdout) > 0

\* A run found no remote head for the branch and pushed with -u.
C15_Witness ==
    \E p \in Procs :
        /\ Running(p, "commit")
        /\ pc[p] = "done"
        /\ \E i \in PushCalls(p) :
              /\ calls[p][i].cmd = "push -u origin"
              /\ calls[p][i - 1].stdout = <<>>

\* A run found a remote head for the branch and pushed without -u.
C15_WitnessUpdate ==
    \E p \in Procs :
        /\ Running(p, "commit")
        /\ pc[p] = "done"
        /\ \E i \in PushCalls(p) :
              /\ calls[p][i].cmd = "push origin"
              /\ Len(calls[p][i - 1].stdout) > 0

\* The record-change invocation p has completed and confirmed its entry.
Recorded(p) == Running(p, "add") /\ pc[p] = "done" /\ result[p] = "ok"

\* The entry the record-change invocation p appended.
NewEntry(p) == changes[p][Len(changes[p])]

\* The change log on disk.
Stored == FromJson(chgFile.body)

\* C16: two record-change invocations are not coordinated.  When both loaded
\* the same store and both completed and confirmed their entry, the store is
\* the full list of the one that wrote last: what they loaded plus a single
\* new entry, so the other confirmed entry is not on disk.
C16_LostRecord ==
    \A p, q \in Procs :
        ( /\ p # q
          /\ Recorded(p) /\ Recorded(q)
          /\ chgFile0[p] = chgFile0[q] )
        => /\ chgFile \in {JsonFile(ToJson(changes[p])), JsonFile(ToJson(changes[q]))}
           /\ Len(Stored) = Len(changes0[p]) + 1
           /\ \E k \in {p, q} : Stored = Append(changes0[p], NewEntry(k))

\* Both invocations recorded different changes and confirmed them, and the
\* store holds only the second one's.
C16_Witness ==
    /\ Recorded(1) /\ Recorded(2)
    /\ chgFile0[1] = chgFile0[2]
    /\ NewEntry(1) # NewEntry(2)
    /\ Printed(1, "Recorded {}: {}") /\ Printed(2, "Recorded {}: {}")
    /\ Stored = Append(changes0[2], NewEntry(2))
    /\ \A i \in DOMAIN Stored : Stored[i] # NewEntry(1)

\* The message the commit-and-push invocation p handed to git commit.
CommitMessage(p) ==
    LET i == CHOOSE i \in DOMAIN calls[p] : calls[p][i].cmd = "commit -m"
    IN  calls[p][i].arg

\* The step in which p, after its successful commit, clears the log and
\* returns.
FinalClear(p) ==
    /\ Running(p, "commit")
    /\ Succeeded(p, {"commit -m"})
    /\ pc[p] # "done" /\ pc'[p] = "done"
    /\ result'[p] = "ok"
    /\ changes'[p] = <<>>

\* The record-change invocation q completed after the commit-and-push
\* invocation p loaded the store, and its new entry is on disk.
RecordedMeanwhile(p, q) ==
    /\ Recorded(q)
    /\ chgFile0[q] = chgFile0[p]
    /\ chgFile = JsonFile(ToJson(changes[q]))
    /\ Stored = Append(changes0[p], NewEntry(q))

\* C17: when a record-change invocation has completed after a
\* commit-and-push invocation loaded the store and before its final clear,
\* the clear of the successful commit overwrites the store with the empty
\* list, erasing the new entry, although the commit message was generated
\* from the log as loaded, without the new entry.
C17_ClearErasesNewRecord ==
    [][\A p, q \in Procs :
          (p # q /\ FinalClear(p) /\ RecordedMeanwhile(p, q))
             => /\ chgFile' = EmptyStore
                /\ CommitMessage(p) = SpecMessage(config[p], changes0[p])
                /\ Len(changes0[p]) > 0
                /\ CommitMessage(p)
                      # SpecMessage(config[p], Append(changes0[p], NewEntry(q)))
      ]_vars

\* A commit cleared the store after an add had recorded and confirmed a
\* change that the commit never loaded: the store is empty and the commit
\* message is the one of the loaded log.
C17_Witness ==
    \E p, q \in Procs :
        /\ p # q
        /\ Running(p, "commit") /\ pc[p] = "done" /\ result[p] = "ok"
        /\ Succeeded(p, {"commit -m"})
        /\ changes[p] = <<>>
        /\ Recorded(q) /\ Printed(q, "Recorded {}: {}")
        /\ chgFile0[q] = chgFile0[p]
        /\ changes[q] = Append(changes0[p], NewEntry(q))
        /\ chgFile = EmptyStore
        /\ CommitMessage(p) = SpecMessage(config[p], changes0[p])

====
